---- MODULE Spec2Model ----
(***************************************************************************)
(* Model of pytorch_lightning/utilities/data.py: extract_batch_size,       *)
(* has_iterable_dataset, has_len and get_len.                              *)
(*                                                                         *)
(* Two specifications share the module:                                    *)
(*   SpecLen    has_len / get_len called on a data-loading object          *)
(*   SpecBatch  extract_batch_size called on a nested batch value          *)
(***************************************************************************)
EXTENDS Integers, Sequences, FiniteSets

VARIABLES
    dataloader,   \* the data-loading object handed to has_len / get_len
    rank,         \* rank of the calling process (0 is the primary process)
    warnings,     \* warnings this process has emitted so far, oldest first
    hasLenOut,    \* outcome of the last has_len(dataloader) call
    getLenOut,    \* outcome of the last get_len(dataloader) call
    calls,        \* number of has_len / get_len calls made so far
    batch,        \* the batch value handed to extract_batch_size, as it is now
    batch0,       \* the batch value as it was before the first call
    sizes         \* outcomes of the extract_batch_size calls so far

vars == <<dataloader, rank, warnings, hasLenOut, getLenOut, calls,
          batch, batch0, sizes>>

lenVars == <<dataloader, rank, warnings, hasLenOut, getLenOut, calls>>
batchVars == <<batch, batch0, sizes>>

(***************************************************************************)
(* Bounds                                                                  *)
(***************************************************************************)
MaxLen == 2        \* largest length a data-loading object reports
MaxCalls == 2      \* calls made on one object / one batch
MaxDim == 2        \* largest tensor dimension and text length
MaxDepth == 2      \* nesting depth of a batch
MaxRank == 1       \* ranks 0..MaxRank take part

(***************************************************************************)
(* Exceptions.  An except clause catches an instance of the named class or *)
(* of a class derived from it.                                             *)
(***************************************************************************)
NoError == [cls |-> "none", msg |-> "none"]

\* The error has_len raises itself (data.py line 63).
EmptyDataSource ==
    [cls |-> "ValueError",
     msg |-> "Dataloader returned 0 length. Please make sure that it returns at least 1 batch"]

\* Errors a length query can raise; msg "len" marks an error made by the query.
LenErrorClasses ==
    {"TypeError", "NotImplementedError", "RuntimeError", "ValueError", "FloatOperation"}

\* The Python class hierarchy for the classes above (decimal.FloatOperation
\* derives from TypeError, NotImplementedError from RuntimeError).
Bases(cls) ==
    CASE cls = "FloatOperation" -> {"FloatOperation", "TypeError"}
      [] cls = "NotImplementedError" -> {"NotImplementedError", "RuntimeError"}
      [] OTHER -> {cls}

IsInstance(err, cls) == cls \in Bases(err.cls)

(***************************************************************************)
(* Outcomes of a call: a return or a raise.                                *)
(***************************************************************************)
Return(v) == [status |-> "return", value |-> v, error |-> NoError]
\* A raise carries no value; d fills the value field with one of the result type.
Raise(e, d) == [status |-> "raise", value |-> d, error |-> e]

(***************************************************************************)
(* Data-loading objects.  lens[k] is what len(dataloader) answers to the   *)
(* k-th length query of one call; an object whose length does not change   *)
(* between queries has lens[1] = lens[2].  dataset is "absent" when the    *)
(* object has no dataset attribute.                                        *)
(***************************************************************************)
LenOutcomes ==
    {Return(n) : n \in 0..MaxLen}
        \cup {Raise([cls |-> c, msg |-> "len"], 0) : c \in LenErrorClasses}

DatasetKinds == {"absent", "Dataset", "IterableDataset"}

DataLoaders == [lens : [1..2 -> LenOutcomes], dataset : DatasetKinds]

\* len(dataloader), as the k-th query of the call.
len(dl, k) == dl.lens[k]

\* data.py 46-47
has_iterable_dataset(dl) ==
    dl.dataset # "absent" /\ dl.dataset = "IterableDataset"

IterableLenWarning == "Your IterableDataset has __len__ defined."

\* rank_zero_warn: the warning is emitted on rank 0 only.
rank_zero_warn(log, r, message) ==
    IF r = 0 THEN Append(log, message) ELSE log

(***************************************************************************)
(* has_len, data.py 50-77.  The result records the outcome and whether     *)
(* rank_zero_warn was called.                                              *)
(***************************************************************************)
has_len_NoZeroCheck(dl) ==
    LET q == len(dl, 1)
        caught == q.status = "raise"
                    /\ (IsInstance(q.error, "TypeError")
                          \/ IsInstance(q.error, "NotImplementedError"))
        out == IF q.status = "return" THEN Return(TRUE)
               ELSE IF caught THEN Return(FALSE) ELSE Raise(q.error, FALSE)
        warn == out.status = "return" /\ out.value /\ has_iterable_dataset(dl)
    IN [out |-> out, warn |-> warn]

has_len_WarnsAlways(dl) ==
    LET q == len(dl, 1)
        try == IF q.status = "raise" THEN Raise(q.error, FALSE)
               ELSE IF q.value = 0 THEN Raise(EmptyDataSource, FALSE)
               ELSE Return(TRUE)
        caught == try.status = "raise"
                    /\ (IsInstance(try.error, "TypeError")
                          \/ IsInstance(try.error, "NotImplementedError"))
        out == IF caught THEN Return(FALSE) ELSE try
        warn == out.status = "return" /\ has_iterable_dataset(dl)
    IN [out |-> out, warn |-> warn]

has_len_CatchesAll(dl) ==
    LET q == len(dl, 1)
        try == IF q.status = "raise" THEN Raise(q.error, FALSE)
               ELSE IF q.value = 0 THEN Raise(EmptyDataSource, FALSE)
               ELSE Return(TRUE)
        out == IF try.status = "raise" THEN Return(FALSE) ELSE try
        warn == out.status = "return" /\ out.value /\ has_iterable_dataset(dl)
    IN [out |-> out, warn |-> warn]

has_len_TypeErrorEscapes(dl) ==
    LET q == len(dl, 1)
        try == IF q.status = "raise" THEN Raise(q.error, FALSE)
               ELSE IF q.value = 0 THEN Raise(EmptyDataSource, FALSE)
               ELSE Return(TRUE)
        caught == try.status = "raise" /\ IsInstance(try.error, "NotImplementedError")
        out == IF caught THEN Return(FALSE) ELSE try
        warn == out.status = "return" /\ out.value /\ has_iterable_dataset(dl)
    IN [out |-> out, warn |-> warn]

has_len_ZeroIsNoLength(dl) ==
    LET q == len(dl, 1)
        try == IF q.status = "raise" THEN Raise(q.error, FALSE)
               ELSE Return(q.value # 0)
        caught == try.status = "raise"
                    /\ (IsInstance(try.error, "TypeError")
                          \/ IsInstance(try.error, "NotImplementedError"))
        out == IF caught THEN Return(FALSE) ELSE try
        warn == out.status = "return" /\ out.value /\ has_iterable_dataset(dl)
    IN [out |-> out, warn |-> warn]

has_len(dl) ==
    LET q == len(dl, 1)
        \* lines 60-64: the try block
        try == IF q.status = "raise" THEN Raise(q.error, FALSE)
               ELSE IF q.value = 0 THEN Raise(EmptyDataSource, FALSE)
               ELSE Return(TRUE)
        \* lines 65-68: the two except clauses
        caught == try.status = "raise"
                    /\ (IsInstance(try.error, "TypeError")
                          \/ IsInstance(try.error, "NotImplementedError"))
        out == IF caught THEN Return(FALSE) ELSE try
        \* lines 70-76
        warn == out.status = "return" /\ out.value /\ has_iterable_dataset(dl)
    IN [out |-> out, warn |-> warn]

(***************************************************************************)
(* get_len, data.py 80-86.  A returned length is [inf, n]: positive        *)
(* infinity, or the integer n.  The result also records whether the        *)
(* length was queried again.                                               *)
(***************************************************************************)
Infinity == [inf |-> TRUE, n |-> 0]
Finite(n) == [inf |-> FALSE, n |-> n]

get_len_AlwaysInfinity(dl) ==
    LET h == has_len(dl)
    IN IF h.out.status = "raise"
       THEN [out |-> Raise(h.out.error, Infinity),
             warn |-> h.warn, requeried |-> FALSE]
       ELSE [out |-> Return(Infinity),
             warn |-> h.warn, requeried |-> FALSE]

get_len(dl) ==
    LET h == has_len(dl)
        q == len(dl, 2)
    IN IF h.out.status = "raise"
       THEN [out |-> Raise(h.out.error, Infinity),
             warn |-> h.warn, requeried |-> FALSE]
       ELSE IF h.out.value
       THEN [out |-> IF q.status = "raise"
                     THEN Raise(q.error, Infinity)
                     ELSE Return(Finite(q.value)),
             warn |-> h.warn, requeried |-> TRUE]
       ELSE [out |-> Return(Infinity),
             warn |-> h.warn, requeried |-> FALSE]

(***************************************************************************)
(* Calls on the data-loading object.                                       *)
(***************************************************************************)
NotCalled == [status |-> "none"]

Emit(warn) == IF warn THEN rank_zero_warn(warnings, rank, IterableLenWarning)
              ELSE warnings

CallHasLen ==
    /\ calls < MaxCalls
    /\ LET r == has_len(dataloader)
       IN /\ warnings' = Emit(r.warn)
          /\ hasLenOut' = [status |-> r.out.status, value |-> r.out.value,
                           error |-> r.out.error, warn |-> r.warn,
                           emitted |-> Len(Emit(r.warn)) - Len(warnings)]
    /\ calls' = calls + 1
    /\ UNCHANGED <<dataloader, rank, getLenOut, batchVars>>

CallGetLen ==
    /\ calls < MaxCalls
    /\ LET r == get_len(dataloader)
       IN /\ warnings' = Emit(r.warn)
          /\ getLenOut' = [status |-> r.out.status, value |-> r.out.value,
                           error |-> r.out.error, warn |-> r.warn,
                           requeried |-> r.requeried,
                           emitted |-> Len(Emit(r.warn)) - Len(warnings)]
    /\ calls' = calls + 1
    /\ UNCHANGED <<dataloader, rank, hasLenOut, batchVars>>

NoBatch == [tag |-> "None", shape |-> <<>>, text |-> <<>>, keys |-> <<>>, items |-> <<>>]

InitLen ==
    /\ dataloader \in DataLoaders
    /\ rank \in 0..MaxRank
    /\ warnings = <<>>
    /\ hasLenOut = NotCalled
    /\ getLenOut = NotCalled
    /\ calls = 0
    /\ batch = NoBatch
    /\ batch0 = NoBatch
    /\ sizes = <<>>

NextLen == CallHasLen \/ CallGetLen

SpecLen == InitLen /\ [][NextLen]_vars

(***************************************************************************)
(* Batch values (BType, data.py line 22).  A value is a record             *)
(*   tag    "Tensor", "str", "dict", "Mapping", "list", "iterator",        *)
(*          "int" or "None"                                                *)
(*   shape  the shape of a Tensor                                          *)
(*   text   the characters of a str                                        *)
(*   keys   the keys of a dict or Mapping, in insertion order              *)
(*   items  the values of a dict or Mapping in insertion order, the        *)
(*          elements of a list in iteration order, or what an iterator     *)
(*          has still to yield                                             *)
(* "Mapping" is a collections.abc.Mapping that is no dict (UserDict,       *)
(* MappingProxyType); "list" stands for every container that can be        *)
(* iterated again (list, tuple, set); "iterator" is one-shot: iter() of it *)
(* is the object itself and next() takes its first element away.           *)
(***************************************************************************)
Tensor(shape) ==
    [tag |-> "Tensor", shape |-> shape, text |-> <<>>, keys |-> <<>>, items |-> <<>>]
Str(text) ==
    [tag |-> "str", shape |-> <<>>, text |-> text, keys |-> <<>>, items |-> <<>>]
Plain(tag) ==
    [tag |-> tag, shape |-> <<>>, text |-> <<>>, keys |-> <<>>, items |-> <<>>]
Container(tag, keys, items) ==
    [tag |-> tag, shape |-> <<>>, text |-> <<>>, keys |-> keys, items |-> items]

\* The literal 1 that next(..., 1) falls back to (lines 37 and 40).
DefaultSample == Plain("int")

TensorShapes ==
    {<<>>} \cup {<<n>> : n \in 0..MaxDim} \cup {<<n, 1>> : n \in 0..MaxDim}
Texts == UNION {[1..n -> {"a"}] : n \in 0..MaxDim}
Leaves ==
    {Tensor(s) : s \in TensorShapes} \cup {Str(t) : t \in Texts}
        \cup {Plain("int"), Plain("None")}

\* What follows the first element of a container: nothing, or one more tensor
\* whose size no other value of the model has.
LaterTensor == Tensor(<<MaxDim + 1>>)
Rests == {<<>>, <<LaterTensor>>}
\* Keys of a dict or Mapping: the first is a str or an int, a second is None.
KeyText == [i \in 1..(MaxDim + 2) |-> "k"]
FirstKeys == {Str(KeyText), Plain("int")}
KeysFor(k, rest) == IF rest = <<>> THEN <<k>> ELSE <<k, Plain("None")>>

RECURSIVE Batches(_)
Batches(d) ==
    IF d = 0 THEN Leaves
    ELSE LET B == Batches(d - 1)
         IN Leaves
              \cup {Container(t, <<>>, <<>>) : t \in {"dict", "Mapping", "list", "iterator"}}
              \cup {Container(t, <<>>, <<x>> \o r) :
                        t \in {"list", "iterator"}, x \in B, r \in Rests}
              \cup {Container(t, KeysFor(k, r), <<x>> \o r) :
                        t \in {"dict", "Mapping"}, k \in FirstKeys, x \in B, r \in Rests}

\* torch.Tensor.size(dim): a tensor of no dimensions has no dimension 0.
IndexError ==
    [cls |-> "IndexError", msg |-> "dimension specified as 0 but tensor has no dimensions"]
size(b, dim) ==
    IF dim + 1 \in 1..Len(b.shape) THEN Return(b.shape[dim + 1])
    ELSE Raise(IndexError, 0)

\* isinstance(batch, Iterable) for what reaches line 39: a Tensor, a str and a
\* dict are iterable too, but never get there.
IsIterable(b) == b.tag \in {"Mapping", "list", "iterator"}

\* What iterating the value yields: a Mapping yields its keys.
Yields(b) == IF b.tag = "Mapping" THEN b.keys ELSE b.items

\* next(iter(seq), 1)
NextOr1(seq) == IF seq = <<>> THEN DefaultSample ELSE Head(seq)

\* The value after next(iter(...)) took its first element and the call on that
\* element left it as `sample`: an iterator has lost the element; a dict or a
\* list still holds it; the keys of a Mapping are immutable.
AfterSample(b, sample) ==
    IF b.items = <<>> \/ b.tag = "Mapping" THEN b
    ELSE IF b.tag = "iterator" THEN [b EXCEPT !.items = Tail(b.items)]
    ELSE [b EXCEPT !.items[1] = sample]

(***************************************************************************)
(* extract_batch_size, data.py 25-43.  The result is the outcome and the   *)
(* batch value as the call leaves it.                                      *)
(***************************************************************************)
RECURSIVE extract_batch_size_LastElement(_)
extract_batch_size_LastElement(b) ==
    IF b.tag = "Tensor" THEN [out |-> size(b, 0), batch |-> b]
    ELSE IF b.tag = "str" THEN [out |-> Return(Len(b.text)), batch |-> b]
    ELSE IF b.tag = "dict" THEN
        LET r == extract_batch_size_LastElement(NextOr1(b.items))
        IN [out |-> r.out, batch |-> AfterSample(b, r.batch)]
    ELSE IF IsIterable(b) THEN
        LET y == Yields(b)
            r == extract_batch_size_LastElement(
                     IF y = <<>> THEN DefaultSample ELSE y[Len(y)])
        IN [out |-> r.out, batch |-> b]
    ELSE [out |-> Return(1), batch |-> b]

RECURSIVE extract_batch_size(_)
extract_batch_size(b) ==
    \* lines 32-33
    IF b.tag = "Tensor" THEN [out |-> size(b, 0), batch |-> b]
    \* lines 34-35
    ELSE IF b.tag = "str" THEN [out |-> Return(Len(b.text)), batch |-> b]
    \* lines 36-38
    ELSE IF b.tag = "dict" THEN
        LET r == extract_batch_size(NextOr1(b.items))
        IN [out |-> r.out, batch |-> AfterSample(b, r.batch)]
    \* lines 39-41
    ELSE IF IsIterable(b) THEN
        LET r == extract_batch_size(NextOr1(Yields(b)))
        IN [out |-> r.out, batch |-> AfterSample(b, r.batch)]
    \* line 43
    ELSE [out |-> Return(1), batch |-> b]

CallExtractBatchSize ==
    /\ Len(sizes) < MaxCalls
    /\ LET r == extract_batch_size(batch)
       IN /\ sizes' = Append(sizes, r.out)
          /\ batch' = r.batch
    /\ UNCHANGED <<batch0, lenVars>>

InitBatch ==
    /\ batch \in Batches(MaxDepth)
    /\ batch0 = batch
    /\ sizes = <<>>
    /\ dataloader = [lens |-> [k \in 1..2 |-> Return(1)], dataset |-> "absent"]
    /\ rank = 0
    /\ warnings = <<>>
    /\ hasLenOut = NotCalled
    /\ getLenOut = NotCalled
    /\ calls = 0

NextBatch == CallExtractBatchSize

SpecBatch == InitBatch /\ [][NextBatch]_vars

(***************************************************************************)
(* Properties of has_len and get_len, checked under SpecLen.               *)
(***************************************************************************)
FirstLen == len(dataloader, 1)
SecondLen == len(dataloader, 2)
HasLenCalled == hasLenOut.status # "none"
GetLenCalled == getLenOut.status # "none"

\* The length query is unsupported: it signals TypeError or NotImplementedError.
UnsupportedLength(q) ==
    q.status = "raise"
        /\ (IsInstance(q.error, "TypeError") \/ IsInstance(q.error, "NotImplementedError"))
PositiveLength(q) == q.status = "return" /\ q.value >= 1
OtherError(q) == q.status = "raise" /\ ~UnsupportedLength(q)

\* The object answers both length queries of one call alike.
StableLength == FirstLen = SecondLen

\* C1: when the length query returns exactly 0, has_len raises the
\* EmptyDataSource ValueError (it neither returns true nor false), and get_len
\* on the same object raises the same error (it returns neither 0 nor infinity).
C1_ZeroLengthRaises ==
    FirstLen = Return(0) =>
        /\ HasLenCalled =>
              hasLenOut.status = "raise" /\ hasLenOut.error = EmptyDataSource
        /\ GetLenCalled =>
              getLenOut.status = "raise" /\ getLenOut.error = EmptyDataSource

C1_Witness ==
    /\ FirstLen = Return(0)
    /\ HasLenCalled /\ hasLenOut.error = EmptyDataSource
    /\ GetLenCalled /\ getLenOut.error = EmptyDataSource

\* C2: has_len returns true exactly when the length query gives a positive
\* integer, returns false exactly when the length query is unsupported
\* (TypeError or NotImplementedError), and returns a value in no other case.
C2_HasLenReturns ==
    HasLenCalled =>
        /\ PositiveLength(FirstLen) =>
              hasLenOut.status = "return" /\ hasLenOut.value = TRUE
        /\ UnsupportedLength(FirstLen) =>
              hasLenOut.status = "return" /\ hasLenOut.value = FALSE
        /\ hasLenOut.status = "return" =>
              PositiveLength(FirstLen) \/ UnsupportedLength(FirstLen)

C2_Witness ==
    /\ HasLenCalled
    /\ FirstLen.status = "raise" /\ FirstLen.error.cls = "TypeError"
    /\ hasLenOut.status = "return" /\ hasLenOut.value = FALSE

\* C3: when has_len reports true, get_len returns the integer the length
\* query gives when asked again (length N >= 1 gives N); when has_len reports
\* false, get_len returns positive infinity; it returns no other value.
C3_GetLenValue ==
    GetLenCalled =>
        LET h == has_len(dataloader).out
        IN /\ (h = Return(TRUE) /\ SecondLen.status = "return") =>
                  getLenOut.status = "return"
                      /\ getLenOut.value = Finite(SecondLen.value)
           /\ (h = Return(TRUE) /\ StableLength) =>
                  getLenOut.status = "return"
                      /\ getLenOut.value = Finite(FirstLen.value)
                      /\ getLenOut.value.n >= 1
           /\ h = Return(FALSE) =>
                  getLenOut.status = "return" /\ getLenOut.value = Infinity
           /\ getLenOut.status = "return" =>
                  \/ h = Return(TRUE) /\ getLenOut.value = Finite(SecondLen.value)
                  \/ h = Return(FALSE) /\ getLenOut.value = Infinity

C3_Witness ==
    /\ GetLenCalled
    /\ FirstLen = Return(MaxLen) /\ StableLength
    /\ getLenOut.status = "return" /\ getLenOut.value = Finite(MaxLen)

\* C4: when the length query raises an error other than TypeError and
\* NotImplementedError, has_len and get_len return nothing and raise that very
\* error, and no warning is emitted; an error of the repeated query in get_len
\* reaches the caller unchanged as well.
C4_OtherErrorsPropagate ==
    /\ (HasLenCalled /\ OtherError(FirstLen)) =>
          /\ hasLenOut.status = "raise" /\ hasLenOut.error = FirstLen.error
          /\ ~hasLenOut.warn /\ hasLenOut.emitted = 0
    /\ (GetLenCalled /\ OtherError(FirstLen)) =>
          /\ getLenOut.status = "raise" /\ getLenOut.error = FirstLen.error
          /\ ~getLenOut.warn /\ getLenOut.emitted = 0
    /\ (GetLenCalled /\ getLenOut.requeried /\ OtherError(SecondLen)) =>
          getLenOut.status = "raise" /\ getLenOut.error = SecondLen.error

C4_Witness ==
    /\ HasLenCalled /\ GetLenCalled
    /\ FirstLen.status = "raise" /\ FirstLen.error.cls = "ValueError"
    /\ dataloader.dataset = "IterableDataset"
    /\ hasLenOut.error = FirstLen.error /\ getLenOut.error = FirstLen.error

\* C5: one has_len call warns exactly once when it reports true and the
\* dataset is of the iterable variant, the warning being emitted on the
\* primary process only, and never warns in any other case; a call that warns
\* still returns true.
C5_WarnsOnce ==
    HasLenCalled =>
        LET hasLength == hasLenOut.status = "return" /\ hasLenOut.value
            iterable == dataloader.dataset = "IterableDataset"
        IN /\ hasLenOut.warn <=> (hasLength /\ iterable)
           /\ hasLenOut.emitted = IF hasLength /\ iterable /\ rank = 0 THEN 1 ELSE 0
           /\ hasLenOut.emitted <= Len(warnings)
           /\ \A i \in 1..Len(warnings) : warnings[i] = IterableLenWarning
           /\ hasLenOut.warn => PositiveLength(FirstLen)

C5_Witness ==
    /\ HasLenCalled /\ rank = 0
    /\ dataloader.dataset = "IterableDataset"
    /\ hasLenOut.status = "return" /\ hasLenOut.value
    /\ hasLenOut.emitted = 1 /\ warnings = <<IterableLenWarning>>

\* C10: for an object that answers both length queries of a get_len call
\* alike, a get_len that returns gives positive infinity or an integer >= 1,
\* never 0.
C10_NeverZero ==
    (GetLenCalled /\ StableLength /\ getLenOut.status = "return") =>
        \/ getLenOut.value = Infinity
        \/ getLenOut.value.inf = FALSE /\ getLenOut.value.n >= 1

C10_Witness ==
    /\ GetLenCalled /\ StableLength /\ getLenOut.requeried
    /\ getLenOut.status = "return" /\ getLenOut.value.n = 1

(***************************************************************************)
(* Properties of extract_batch_size, checked under SpecBatch.              *)
(***************************************************************************)
Extracted == Len(sizes) >= 1

\* C6: extract_batch_size never fails: every call returns an integer, and a
\* value of no recognised shape gives 1.
C6_NeverFails ==
    /\ \A i \in 1..Len(sizes) : sizes[i].status = "return"
    /\ (Extracted /\ batch0.tag \in {"int", "None"}) => sizes[1] = Return(1)

\* C7: for a mapping batch of any mapping type, the result is that of the first
\* value in insertion order, and 1 for an empty mapping.
C7_MappingFirstValue ==
    (Extracted /\ batch0.tag \in {"dict", "Mapping"}) =>
        sizes[1] = IF batch0.items = <<>> THEN Return(1)
                   ELSE extract_batch_size(batch0.items[1]).out

\* C8: for a non-mapping iterable batch the result is that of the first
\* element in iteration order, at every nesting depth ([[tensor of length n]]
\* gives n), and 1 for an empty iterable.
C8_IterableFirstElement ==
    /\ (Extracted /\ batch0.tag \in {"list", "iterator"}) =>
          sizes[1] = IF batch0.items = <<>> THEN Return(1)
                     ELSE extract_batch_size(batch0.items[1]).out
    /\ \A n \in 0..MaxDim, t1 \in {"list", "iterator"}, t2 \in {"list", "iterator"},
          r \in Rests :
          (Extracted
             /\ batch0 = Container(t1, <<>>,
                             <<Container(t2, <<>>, <<Tensor(<<n>>)>> \o r)>> \o r)) =>
              sizes[1] = Return(n)

C8_Witness ==
    /\ Extracted
    /\ batch0 = Container("list", <<>>,
                    <<Container("list", <<>>, <<Tensor(<<MaxDim>>), LaterTensor>>),
                      LaterTensor>>)
    /\ sizes[1] = Return(MaxDim)

\* C9: extract_batch_size only inspects: after a call the batch is as it was
\* before, and a second call on it gives the result of the first.
C9_ReadOnly ==
    /\ Extracted => batch = batch0
    /\ Len(sizes) >= 2 => sizes[2] = sizes[1]

====
